---- MODULE Spec2Model ----
(***************************************************************************)
(* Model of the code-review agent: the task row and its writers            *)
(* (submit_pr_analysis, cancel_analysis_task, the Celery worker run        *)
(* analyze_pr_task with update_task_status and save_analysis_results) and  *)
(* the analysis engine the worker calls (LangGraphAnalyzer ->              *)
(* PythonCodeAnalysisWorkflow and the four Python analysis tools).         *)
(*                                                                         *)
(* Floats are integers (progress 0.0 is 0, 100.0 is 100).  A Python dict   *)
(* is a TLA+ function whose domain is its set of keys.  A file content is  *)
(* not a string but the facts the tools read off it: the outcome of        *)
(* ast.parse, the syntax-tree nodes the tools look for, and per line the   *)
(* set of textual features the line-based checks test.                     *)
(***************************************************************************)
EXTENDS Integers, Sequences, FiniteSets, TLC

\* ------------------------------------------------------------------ bounds
\* Longest list of changed files the source-control collaborator returns.
MaxFiles == 2
\* Most cancel requests issued against the task.
MaxCancels == 2
\* Most status writes that fail inside update_task_status (swallowed there).
MaxDbFaults == 1
\* Most lines, and most syntax-tree nodes of interest, of a file content
\* handed to the analysis tools on their own.
MaxLines == 2
MaxNodes == 1
\* Most issue records in one reply of the language model.
MaxIssues == 2
\* Longest candidate list handed to the file selector on its own.
MaxCandidates == 6
\* Largest change count of such a candidate.
MaxChanges == 2
\* Most requests sent to POST /analyze-pr.
MaxSubmits == 2
\* Longest files_data list handed to IntelligentWorkflow on its own.
MaxTriaged == 26

\* ------------------------------------------------------------ program data
\* None in a timestamp or id column
NULL == 0
\* None where the other values are strings
None == "None"

PENDING == "pending"
PROCESSING == "processing"
COMPLETED == "completed"
FAILED == "failed"
CANCELLED == "cancelled"

TaskStatus == {PENDING, PROCESSING, COMPLETED, FAILED, CANCELLED}

IsTerminal(s) == s \in {COMPLETED, FAILED, CANCELLED}

IssueType == {"style", "bug", "performance", "security", "maintainability", "best_practice"}

IssueSeverity == {"low", "medium", "high", "critical"}

AnalysisType == {"style", "bug", "performance", "best_practice"}

\* dict.get(key, default)
Get(d, k, default) == IF k \in DOMAIN d THEN d[k] ELSE default

EmptyDict == [k \in {} |-> 0]

RECURSIVE Concat(_)
Concat(ss) == IF ss = <<>> THEN <<>> ELSE Head(ss) \o Concat(Tail(ss))

Count(s, P(_)) == Cardinality({i \in 1..Len(s) : P(s[i])})

Issue(t, sev, ln, rule) == [type |-> t, severity |-> sev, line |-> ln, rule |-> rule]

\* --------------------------------------------------- the analysis tools
\* A tool's outcome: the issues it returns, or the exception it lets escape.
Returned(issues) == [raised |-> FALSE, issues |-> issues]
Raised == [raised |-> TRUE, issues |-> <<>>]

style_analysis_tool(c) ==
    Returned(Concat([i \in 1..Len(c.lines) |->
        (IF "long" \in c.lines[i]
            THEN <<Issue("style", "low", i, "line_length")>> ELSE <<>>)
        \o (IF "trailing" \in c.lines[i]
            THEN <<Issue("style", "low", i, "trailing_whitespace")>> ELSE <<>>)
        \o (IF "multi_import" \in c.lines[i]
            THEN <<Issue("style", "medium", i, "import_style")>> ELSE <<>>)]))

\* bug_analysis_tool returning from its except SyntaxError branch, before the
\* text checks.
bug_analysis_tool_returns_early(c) ==
    IF c.parse = "raises" THEN Raised
    ELSE IF c.parse = "syntax_error"
    THEN Returned(<<Issue("bug", "critical",
                          IF c.errline = NULL THEN 1 ELSE c.errline, "syntax_error")>>)
    ELSE Returned(
        Concat([n \in 1..Len(c.nodes) |->
                    IF c.nodes[n].kind = "bare_except"
                    THEN <<Issue("bug", "medium", c.nodes[n].line, "bare_except")>>
                    ELSE IF c.nodes[n].kind = "eq_none"
                    THEN <<Issue("bug", "medium", c.nodes[n].line, "none_comparison")>>
                    ELSE <<>>])
        \o Concat([i \in 1..Len(c.lines) |->
            IF "print" \in c.lines[i]
            THEN <<Issue("bug", "low", i, "print_statement")>> ELSE <<>>]))

\* ast.parse(file_content): "ok", "syntax_error" (SyntaxError, caught by the
\* tools) or "raises" (any other exception, e.g. ValueError, RecursionError).
bug_analysis_tool(c) ==
    IF c.parse = "raises" THEN Raised
    ELSE Returned(
        (IF c.parse = "ok"
            THEN Concat([n \in 1..Len(c.nodes) |->
                    IF c.nodes[n].kind = "bare_except"
                    THEN <<Issue("bug", "medium", c.nodes[n].line, "bare_except")>>
                    ELSE IF c.nodes[n].kind = "eq_none"
                    THEN <<Issue("bug", "medium", c.nodes[n].line, "none_comparison")>>
                    ELSE <<>>])
            ELSE <<Issue("bug", "critical",
                         IF c.errline = NULL THEN 1 ELSE c.errline, "syntax_error")>>)
        \o Concat([i \in 1..Len(c.lines) |->
            IF "print" \in c.lines[i]
            THEN <<Issue("bug", "low", i, "print_statement")>> ELSE <<>>]))

performance_analysis_tool(c) ==
    IF c.parse = "raises" THEN Raised
    ELSE Returned(
        (IF c.parse = "ok"
            THEN Concat([n \in 1..Len(c.nodes) |->
                    IF c.nodes[n].kind = "augadd_in_for"
                    THEN <<Issue("performance", "medium", c.nodes[n].line,
                                 "string_concat_loop")>>
                    ELSE <<>>])
            ELSE <<>>)
        \o Concat([i \in 1..Len(c.lines) |->
            (IF "count_if" \in c.lines[i]
                THEN <<Issue("performance", "medium", i, "inefficient_membership")>>
                ELSE <<>>)
            \o (IF "sum_listcomp" \in c.lines[i]
                THEN <<Issue("performance", "low", i, "generator_preferred")>>
                ELSE <<>>)]))

best_practice_tool(c) ==
    IF c.parse = "raises" THEN Raised
    ELSE Returned(
        (IF c.parse = "ok"
            THEN Concat([n \in 1..Len(c.nodes) |->
                    IF c.nodes[n].kind = "func_nodoc"
                    THEN <<Issue("best_practice", "medium", c.nodes[n].line,
                                 "missing_docstring")>>
                    ELSE IF c.nodes[n].kind = "class_nodoc"
                    THEN <<Issue("best_practice", "medium", c.nodes[n].line,
                                 "missing_class_docstring")>>
                    ELSE <<>>])
            ELSE <<>>)
        \o Concat([i \in 1..Len(c.lines) |->
            (IF "credential" \in c.lines[i]
                THEN <<Issue("best_practice", "high", i, "hardcoded_credentials")>>
                ELSE <<>>)
            \o (IF "todo" \in c.lines[i]
                THEN <<Issue("best_practice", "low", i, "todo_comment")>>
                ELSE <<>>)]))

\* ------------------------------------------- PythonCodeAnalysisWorkflow
\* f.get("filename", "").endswith(".py"); a filename is [dir, base, ext]
EndsWithPy(fn) == fn.ext = "py"

\* file_path.split("/")[-1] and os.path.basename(file_path)
Basename(fn) == [base |-> fn.base, ext |-> fn.ext]

\* "" as a content: it parses, has no nodes, and "".split("\n") is one empty line
EmptyContent == [parse |-> "ok", errline |-> NULL, nodes |-> <<>>, lines |-> <<{}>>]

RECURSIVE InsertByChanges(_, _)
InsertByChanges(x, s) ==
    IF s = <<>> THEN <<x>>
    ELSE IF Head(s).changes >= x.changes
         THEN <<Head(s)>> \o InsertByChanges(x, Tail(s))
         ELSE <<x>> \o s

RECURSIVE SortedByChangesDesc(_)
\* sorted(files, key=changes, reverse=True): stable, equal keys keep input order
SortedByChangesDesc(s) ==
    IF s = <<>> THEN <<>>
    ELSE InsertByChanges(s[Len(s)], SortedByChangesDesc(SubSeq(s, 1, Len(s) - 1)))

FirstN(s, n) == SubSeq(s, 1, IF Len(s) < n THEN Len(s) ELSE n)

\* initial_state of analyze_pr; pr_data is kept as what isinstance(pr_data,
\* dict) and pr_data.get see of it: "dict" (what the worker passes), "mapping"
\* (an object with get() that is no dict) or "none".
InitialState(pr_files) ==
    [pr_data |-> "dict", pr_files |-> pr_files, selected_files |-> <<>>,
     file_contents |-> EmptyDict, file_analyses |-> <<>>, stage |-> "starting",
     progress |-> 0, summary |-> EmptyDict]

analyze_pr_context(state) ==
    IF state.pr_data # "dict"
    THEN [state EXCEPT !.stage = "error",
                       !.summary = [error |-> "invalid_pr_data"]]
    ELSE [state EXCEPT !.stage = "analyzed_context", !.progress = 20]

\* select_files_for_analysis without the [:5] slice.
select_files_for_analysis_uncapped(state) ==
    LET py == SelectSeq(state.pr_files, LAMBDA f : EndsWithPy(f.filename))
        sorted_files == SortedByChangesDesc(py)
    IN [state EXCEPT
            !.selected_files =
                [i \in 1..Len(sorted_files) |-> sorted_files[i].filename],
            !.stage = "files_selected", !.progress = 40]

\* select_files_for_analysis with files of zero changes filtered out.
select_files_for_analysis_drops_zero(state) ==
    LET py == SelectSeq(state.pr_files,
                        LAMBDA f : EndsWithPy(f.filename) /\ f.changes > 0)
        sorted_files == SortedByChangesDesc(py)
        top == FirstN(sorted_files, 5)
    IN [state EXCEPT !.selected_files = [i \in 1..Len(top) |-> top[i].filename],
                     !.stage = "files_selected", !.progress = 40]

select_files_for_analysis(state) ==
    LET py == SelectSeq(state.pr_files, LAMBDA f : EndsWithPy(f.filename))
        sorted_files == SortedByChangesDesc(py)
        top == FirstN(sorted_files, 5)
    IN [state EXCEPT !.selected_files = [i \in 1..Len(top) |-> top[i].filename],
                     !.stage = "files_selected", !.progress = 40]

\* next(f for f in pr_files if f["filename"] == file_path): the first match
FirstMatch(pr_files, file_path) ==
    LET idx == {i \in 1..Len(pr_files) : pr_files[i].filename = file_path}
    IN pr_files[CHOOSE i \in idx : \A j \in idx : i <= j]

fetch_file_contents(state) ==
    LET paths == {state.selected_files[i] : i \in 1..Len(state.selected_files)}
    IN [state EXCEPT
            !.file_contents =
                [p \in paths |-> FirstMatch(state.pr_files, p).content],
            !.stage = "content_fetched", !.progress = 60]

\* FileIssue(type=..., line=..., severity=...): a type outside AnalysisType
\* becomes STYLE; the rule is not carried over
FileIssue(issue) ==
    [type |-> IF issue.type \in AnalysisType THEN issue.type ELSE "style",
     line |-> issue.line,
     severity |-> issue.severity]

\* The four tools run on one file, in the order of the source; the first
\* exception ends the run of the tools (nothing catches it in the loop).
RunTools(content) ==
    LET st == style_analysis_tool(content)
        bg == bug_analysis_tool(content)
        pf == performance_analysis_tool(content)
        bp == best_practice_tool(content)
    IN IF st.raised \/ bg.raised \/ pf.raised \/ bp.raised
       THEN Raised
       ELSE Returned(st.issues \o bg.issues \o pf.issues \o bp.issues)

\* A node's outcome: the new state, or the exception it lets escape.
analyze_python_code(state) ==
    LET sel == state.selected_files
        out == [i \in 1..Len(sel) |-> RunTools(state.file_contents[sel[i]])]
    IN IF \E i \in 1..Len(sel) : out[i].raised
       THEN [raised |-> TRUE, state |-> state]
       ELSE [raised |-> FALSE,
             state |-> [state EXCEPT
                !.file_analyses =
                    [i \in 1..Len(sel) |->
                        [name |-> Basename(sel[i]),
                         path |-> sel[i],
                         issues |-> [k \in 1..Len(out[i].issues) |->
                                        FileIssue(out[i].issues[k])],
                         analyzed |-> TRUE,
                         language |-> "python"]],
                !.stage = "analysis_complete", !.progress = 90]]

AllIssues(file_analyses) ==
    Concat([i \in 1..Len(file_analyses) |-> file_analyses[i].issues])

synthesize_results(state) ==
    LET all == AllIssues(state.file_analyses)
        types == {all[i].type : i \in 1..Len(all)}
        sevs == {all[i].severity : i \in 1..Len(all)}
    IN [state EXCEPT
            !.summary =
                [total_files |-> Len(state.file_analyses),
                 total_issues |-> Len(all),
                 critical_issues |-> Count(all, LAMBDA i : i.severity = "critical"),
                 analysis_type |-> "ai_driven_python",
                 issue_type_breakdown |->
                    [t \in types |-> Count(all, LAMBDA i : i.type = t)],
                 severity_breakdown |->
                    [v \in sevs |-> Count(all, LAMBDA i : i.severity = v)]],
            !.stage = "complete", !.progress = 100]

_format_results(state) ==
    LET fas == state.file_analyses
    IN [analysis_type |-> "ai_driven_python",
        status |-> "completed",
        results |->
            [files |-> [i \in 1..Len(fas) |->
                          [name |-> fas[i].name, path |-> fas[i].path,
                           language |-> fas[i].language, size |-> 0,
                           issues |-> fas[i].issues]],
             summary |-> state.summary],
        summary |-> state.summary,
        file_analyses |-> [i \in 1..Len(fas) |->
                             [file_path |-> fas[i].path,
                              language |-> fas[i].language,
                              issues |-> fas[i].issues]]]

_create_error_response ==
    [analysis_type |-> "ai_driven_error",
     status |-> "failed",
     error |-> "error",
     results |-> [files |-> <<>>,
                  summary |-> [total_files |-> 0, total_issues |-> 0,
                               critical_issues |-> 0]]]

_create_empty_analysis ==
    [analysis_type |-> "ai_driven_empty",
     status |-> "completed",
     results |-> [files |-> <<>>,
                  summary |-> [total_files |-> 0, total_issues |-> 0,
                               critical_issues |-> 0,
                               reason |-> "No Python files found"]]]

\* graph.ainvoke: pr_analysis -> file_selection -> content_fetching ->
\* python_analysis -> synthesis
ainvoke(initial_state) ==
    LET analysed == analyze_python_code(
                        fetch_file_contents(
                            select_files_for_analysis(
                                analyze_pr_context(initial_state))))
    IN IF analysed.raised THEN analysed
       ELSE [raised |-> FALSE, state |-> synthesize_results(analysed.state)]

\* PythonCodeAnalysisWorkflow.analyze_pr
workflow_analyze_pr(files_data) ==
    LET r == ainvoke(InitialState(files_data))
    IN IF r.raised THEN _create_error_response ELSE _format_results(r.state)

\* LangGraphAnalyzer.analyze_pr
analyze_pr(files_data) ==
    LET python_files == SelectSeq(files_data, LAMBDA f : EndsWithPy(f.filename))
    IN IF python_files = <<>> THEN _create_empty_analysis
       ELSE workflow_analyze_pr(python_files)

\* ------------------------------------------------- worker-side helpers
adapt_analysis_results_for_database(analysis_results) ==
    [files |-> Get(analysis_results, "files", EmptyDict),
     summary |-> Get(analysis_results, "summary", EmptyDict)]

\* The AnalysisSummary row save_analysis_results builds from the summary dict.
SummaryRow(summary_in) ==
    LET sev == Get(summary_in, "severity_breakdown", EmptyDict)
        typ == Get(summary_in, "issue_type_breakdown", EmptyDict)
    IN [total_files |-> Get(summary_in, "total_files",
                            Get(summary_in, "total_files_analyzed", 0)),
        total_issues |-> Get(summary_in, "total_issues", 0),
        critical_issues |-> Get(summary_in, "critical_issues", Get(sev, "critical", 0)),
        high_issues |-> Get(summary_in, "high_issues", Get(sev, "high", 0)),
        medium_issues |-> Get(summary_in, "medium_issues", Get(sev, "medium", 0)),
        low_issues |-> Get(summary_in, "low_issues", Get(sev, "low", 0)),
        style_issues |-> Get(summary_in, "style_issues", Get(typ, "quality", 0)),
        bug_issues |-> Get(summary_in, "bug_issues", Get(typ, "security", 0)),
        performance_issues |->
            Get(summary_in, "performance_issues", Get(typ, "performance", 0)),
        security_issues |-> Get(summary_in, "security_issues", Get(typ, "security", 0)),
        maintainability_issues |->
            Get(summary_in, "maintainability_issues", Get(typ, "maintainability", 0)),
        best_practice_issues |-> Get(summary_in, "best_practice_issues", 0),
        code_quality_score |->
            Get(summary_in, "code_quality_score", Get(summary_in, "overall_score", 0)),
        maintainability_score |-> Get(summary_in, "maintainability_score", 0)]

\* The AnalysisResult rows save_analysis_results builds from the files dict.
ResultRows(files) ==
    {[file_name |-> Basename(p), file_path |-> p,
      language |-> Get(files[p], "language", "unknown"),
      issues |-> Get(files[p], "issues", <<>>)] : p \in DOMAIN files}

\* ------------------------------------------------------ the environment
\* Contents a file of the repository may hold at the head commit.
Styled ==
    [parse |-> "ok", errline |-> NULL, nodes |-> <<>>, lines |-> <<{"long"}, {}>>]

Mixed ==
    [parse |-> "ok", errline |-> NULL,
     nodes |-> <<[kind |-> "bare_except", line |-> 2]>>,
     lines |-> <<{"count_if"}, {"credential"}, {"print"}>>]

Broken ==
    [parse |-> "syntax_error", errline |-> 2,
     nodes |-> <<[kind |-> "func_nodoc", line |-> 1]>>,
     lines |-> <<{"todo"}, {}>>]

Poison ==
    [parse |-> "raises", errline |-> NULL, nodes |-> <<>>, lines |-> <<{}>>]

\* What get_file_content finds at a path: a text, a binary blob, or an error.
Text(c) == [kind |-> "text", content |-> c]
Binary == [kind |-> "binary", content |-> EmptyContent]
FetchError == [kind |-> "error", content |-> EmptyContent]

PrFile(base, ext, additions, deletions, blob) ==
    [filename |-> [dir |-> "src", base |-> base, ext |-> ext],
     additions |-> additions, deletions |-> deletions,
     changes |-> additions + deletions, blob |-> blob]

\* Changed files the source-control collaborator may report for the PR, in the
\* order it lists them.
SampleFiles ==
    <<PrFile("a", "py", 3, 2, Text(Styled)),
      PrFile("b", "py", 5, 0, Text(Mixed)),
      PrFile("p", "py", 1, 0, Text(Poison)),
      PrFile("big", "py", 900, 200, Text(Mixed)),
      PrFile("notes", "txt", 1, 0, Text(Styled)),
      PrFile("logo", "py", 1, 0, Binary),
      PrFile("gone", "py", 1, 0, FetchError)>>

RECURSIVE Pick(_, _, _)
\* the entries of s at the indices in I, in the order of s, from index k on
Pick(s, I, k) ==
    IF k > Len(s) THEN <<>>
    ELSE (IF k \in I THEN <<s[k]>> ELSE <<>>) \o Pick(s, I, k + 1)

\* The file lists of a PR: the sublists of SampleFiles of at most MaxFiles files.
FileLists ==
    {Pick(SampleFiles, I, 1) :
        I \in {J \in SUBSET (1..Len(SampleFiles)) : Cardinality(J) <= MaxFiles}}

PrStates == {"open", "closed", "unknown"}

CancelReasons == {None, "obsolete"}

\* ---------------------------------------------------------------- state
VARIABLES
    task,               \* the AnalysisTask row, or NoTask before it is committed
    results,            \* AnalysisResult rows of the task
    summaries,          \* AnalysisSummary rows of the task, in insertion order
    now,                \* the clock datetime.now() reads
    spc,                \* submit_pr_analysis: position of the handler
    pc,                 \* analyze_pr_task: position of the worker run
    pr_state,           \* worker local: pr_metadata["state"]
    files,              \* worker local: pr_files_data["files"]
    idx,                \* worker local: the loop index i (files[idx + 1] is next)
    files_for_analysis, \* worker local
    analysis_results,   \* worker local
    cpc,                \* cancel_analysis_task: position of the handler
    cancel_reason,      \* cancel_analysis_task: request.reason of the open request
    cancels,            \* cancel requests issued so far
    resp,               \* HTTP status of the last cancel response
    revoked,            \* celery.control.revoke was broadcast for the run
    cancel_committed,   \* history: some cancel request has been committed
    cancel_in_run,      \* history: a cancel was committed while the run was in progress
    ever_processing,    \* history: the status PROCESSING has been persisted
    db_faults,          \* history: status writes that failed
    call_args,          \* a function exercised on its own: its arguments
    call_result,        \* a function exercised on its own: what it returned
    submissions,        \* POST /analyze-pr requests: [raw, request, pos, task_id, code]
    db_tasks,           \* the analysis_tasks table as submit sees it: id -> row
    celery_queue        \* messages analyze_pr_task.delay has put on the broker

vars == <<task, results, summaries, now, spc, pc, pr_state, files, idx,
          files_for_analysis, analysis_results, cpc, cancel_reason, cancels, resp,
          revoked, cancel_committed, cancel_in_run, ever_processing, db_faults,
          call_args, call_result, submissions, db_tasks, celery_queue>>

submit_vars == <<submissions, db_tasks, celery_queue>>

harness_vars == <<call_args, call_result, submit_vars>>

worker_locals == <<pr_state, files, idx, files_for_analysis, analysis_results>>
cancel_vars == <<cpc, cancel_reason, cancels, resp, revoked, cancel_committed, cancel_in_run>>

NoTask == [status |-> "none"]

\* AnalysisTask(repo_url, pr_number, status=PENDING, progress=0.0)
NewTask ==
    [status |-> PENDING, progress |-> 0, started_at |-> NULL, completed_at |-> NULL,
     error_message |-> None, celery_task_id |-> NULL]

\* Positions at which the run has started and has not yet returned or raised.
InProgress ==
    {"fetch_meta", "meta_fetched", "bad_state", "fetch_files", "files_fetched",
     "no_files", "loop", "pre_analysis", "analysis", "analysis_failed",
     "engine_failed", "post_analysis", "save", "saved", "github_error",
     "unexpected_error"}

\* Positions at which the run is over.
Finished == {"returned", "raised", "terminated"}

Init ==
    /\ task = NoTask
    /\ results = {}
    /\ summaries = <<>>
    /\ now = 1
    /\ spc = "start"
    /\ pc = "none"
    /\ pr_state = "none"
    /\ files = <<>>
    /\ idx = 0
    /\ files_for_analysis = <<>>
    /\ analysis_results = EmptyDict
    /\ cpc = "idle"
    /\ cancel_reason = None
    /\ cancels = 0
    /\ resp = 0
    /\ revoked = FALSE
    /\ cancel_committed = FALSE
    /\ cancel_in_run = FALSE
    /\ ever_processing = FALSE
    /\ db_faults = 0
    /\ call_args = <<>>
    /\ call_result = <<>>
    /\ submissions = <<>>
    /\ db_tasks = <<>>
    /\ celery_queue = <<>>

Logged(was, t) == was \/ t.status = PROCESSING

\* ------------------------------------------------- update_task_status
\* update_task_status writing error_message only for FAILED and leaving it
\* alone otherwise, instead of clearing it.
update_task_status_keeps_message(t, status, progress, message, time) ==
    [t EXCEPT
        !.status = status,
        !.progress = progress,
        !.started_at =
            IF status = PROCESSING /\ t.started_at = NULL THEN time ELSE @,
        !.completed_at =
            IF ~(status = PROCESSING /\ t.started_at = NULL)
               /\ status \in {COMPLETED, FAILED}
            THEN time ELSE @,
        !.error_message =
            IF message # None /\ status = FAILED THEN message ELSE @]

\* The row update_task_status commits for the row it loaded.  `message` is
\* never empty at the call sites of the worker.
update_task_status(t, status, progress, message, time) ==
    [t EXCEPT
        !.status = status,
        !.progress = progress,
        !.started_at =
            IF status = PROCESSING /\ t.started_at = NULL THEN time ELSE @,
        !.completed_at =
            IF ~(status = PROCESSING /\ t.started_at = NULL)
               /\ status \in {COMPLETED, FAILED}
            THEN time ELSE @,
        !.error_message =
            IF message # None
            THEN (IF status = FAILED THEN message ELSE None)
            ELSE @]

\* run_async_in_celery(update_task_status(...)) as a step of the worker: the
\* row is loaded, changed and committed in one session; an exception inside is
\* logged and swallowed, leaving the row as it was.
WriteStatus(status, progress, message) ==
    /\ now' = now + 1
    /\ \/ /\ task' = update_task_status(task, status, progress, message, now)
          /\ ever_processing' = Logged(ever_processing, task')
          /\ db_faults' = db_faults
       \/ /\ db_faults < MaxDbFaults
          /\ db_faults' = db_faults + 1
          /\ UNCHANGED <<task, ever_processing>>

\* ------------------------------------------------- submit_pr_analysis
SubmitCommit ==
    /\ spc = "start"
    /\ task' = NewTask
    /\ ever_processing' = FALSE
    /\ spc' = "committed"
    /\ UNCHANGED <<results, summaries, now, pc, worker_locals, cancel_vars, db_faults>>
    /\ UNCHANGED harness_vars

\* analyze_pr_task.delay(...): the run is queued, or the broker call raises and
\* the handler answers 500 after a rollback that has nothing left to undo.
SubmitEnqueue ==
    /\ spc = "committed"
    /\ \/ pc' = "queued" /\ spc' = "enqueued"
       \/ pc' = pc /\ spc' = "error"
    /\ UNCHANGED <<task, results, summaries, now, worker_locals, cancel_vars,
                   ever_processing, db_faults>>
    /\ UNCHANGED harness_vars

SubmitSetCeleryId ==
    /\ spc = "enqueued"
    /\ task' = [task EXCEPT !.celery_task_id = 1]
    /\ spc' = "done"
    /\ UNCHANGED <<results, summaries, now, pc, worker_locals, cancel_vars,
                   ever_processing, db_faults>>
    /\ UNCHANGED harness_vars

\* cancel_analysis_task with the status test dropped: a task in any status is
\* revoked and goes on to the commit.
CancelRequest_unchecked ==
    /\ cpc = "idle"
    /\ cancels < MaxCancels
    /\ cancels' = cancels + 1
    /\ \E reason \in CancelReasons :
        IF task = NoTask
        THEN /\ resp' = 404
             /\ UNCHANGED <<cpc, cancel_reason, revoked>>
        ELSE /\ revoked' = (revoked \/ task.celery_task_id # NULL)
             /\ cancel_reason' = reason
             /\ cpc' = "commit"
             /\ resp' = 0
    /\ UNCHANGED <<task, results, summaries, now, spc, pc, worker_locals,
                   cancel_committed, cancel_in_run, ever_processing, db_faults>>
    /\ UNCHANGED harness_vars

\* ----------------------------------------------- cancel_analysis_task
\* db_session.get, the status check and the revoke: no await separates them.
CancelRequest ==
    /\ cpc = "idle"
    /\ cancels < MaxCancels
    /\ cancels' = cancels + 1
    /\ \E reason \in CancelReasons :
        IF task = NoTask
        THEN /\ resp' = 404
             /\ UNCHANGED <<cpc, cancel_reason, revoked>>
        ELSE IF task.status \notin {PENDING, PROCESSING}
        THEN /\ resp' = 409
             /\ UNCHANGED <<cpc, cancel_reason, revoked>>
        ELSE /\ revoked' = (revoked \/ task.celery_task_id # NULL)
             /\ cancel_reason' = reason
             /\ cpc' = "commit"
             /\ resp' = 0
    /\ UNCHANGED <<task, results, summaries, now, spc, pc, worker_locals,
                   cancel_committed, cancel_in_run, ever_processing, db_faults>>
    /\ UNCHANGED harness_vars

\* The row cancel_analysis_task commits: status and error_message are the
\* only attributes it sets.
cancel_analysis_task(t, reason) ==
    [t EXCEPT !.status = CANCELLED,
              !.error_message =
                  IF reason # None THEN reason ELSE "Task cancelled by user"]

CancelCommit ==
    /\ cpc = "commit"
    /\ task' = cancel_analysis_task(task, cancel_reason)
    /\ ever_processing' = Logged(ever_processing, task')
    /\ resp' = 200
    /\ cpc' = "idle"
    /\ cancel_reason' = None
    /\ cancel_committed' = TRUE
    /\ cancel_in_run' = (cancel_in_run \/ pc \in InProgress)
    /\ UNCHANGED <<results, summaries, now, spc, pc, worker_locals, cancels,
                   revoked, db_faults>>
    /\ UNCHANGED harness_vars

\* The revoke broadcast reaches the worker: a queued run is discarded, a
\* running one is killed (terminate=True).  Until then the run goes on.
WorkerRevoked ==
    /\ revoked
    /\ pc \in InProgress \cup {"queued"}
    /\ pc' = "terminated"
    /\ UNCHANGED <<task, results, summaries, now, spc, worker_locals, cancel_vars,
                   ever_processing, db_faults>>
    /\ UNCHANGED harness_vars

\* ------------------------------------------------------- analyze_pr_task
row_vars == <<results, summaries>>

\* LanguageDetector.detect_language_from_filename
detect_language_from_filename(fn) == IF fn.ext = "py" THEN "python" ELSE "text"

\* update_task_status(PROCESSING, 0.0, "Starting analysis...")
WStart ==
    /\ pc = "queued"
    /\ WriteStatus(PROCESSING, 0, "Starting analysis...")
    /\ pc' = "fetch_meta"
    /\ UNCHANGED <<row_vars, spc, worker_locals, cancel_vars>>
    /\ UNCHANGED harness_vars

\* github_service.get_pull_request_metadata: metadata, or a GitHub exception
WFetchMetadata ==
    /\ pc = "fetch_meta"
    /\ \/ \E st \in PrStates : pr_state' = st /\ pc' = "meta_fetched"
       \/ pr_state' = pr_state /\ pc' = "github_error"
    /\ UNCHANGED <<task, row_vars, now, spc, files, idx, files_for_analysis,
                   analysis_results, cancel_vars, ever_processing, db_faults>>
    /\ UNCHANGED harness_vars

\* update_task_status(PROCESSING, 10.0, "PR metadata fetched"), then the check
\* of pr_metadata["state"] (the FAILED write of an unanalyzable PR is WBadState)
WMetadataFetched ==
    /\ pc = "meta_fetched"
    /\ WriteStatus(PROCESSING, 10, "PR metadata fetched")
    /\ pc' = IF pr_state \notin {"open", "closed"} THEN "bad_state" ELSE "fetch_files"
    /\ pr_state' = "none"   \* pr_metadata["state"] is not read again
    /\ UNCHANGED <<row_vars, spc, files, idx, files_for_analysis, analysis_results,
                   cancel_vars>>
    /\ UNCHANGED harness_vars

\* The unanalyzable-state branch writing FAILED with no message.
WBadState_without_message ==
    /\ pc = "bad_state"
    /\ WriteStatus(FAILED, 0, None)
    /\ pc' = "returned"
    /\ UNCHANGED <<row_vars, spc, worker_locals, cancel_vars>>
    /\ UNCHANGED harness_vars

\* update_task_status(FAILED, 0.0, "PR is in '...' state"); return
WBadState ==
    /\ pc = "bad_state"
    /\ WriteStatus(FAILED, 0, "PR is in state")
    /\ pc' = "returned"
    /\ UNCHANGED <<row_vars, spc, worker_locals, cancel_vars>>
    /\ UNCHANGED harness_vars

\* github_service.get_pull_request_files: the file list, or a GitHub exception
WFetchFiles ==
    /\ pc = "fetch_files"
    /\ \/ \E fl \in FileLists : files' = fl /\ pc' = "files_fetched"
       \/ files' = files /\ pc' = "github_error"
    /\ UNCHANGED <<task, row_vars, now, spc, pr_state, idx, files_for_analysis,
                   analysis_results, cancel_vars, ever_processing, db_faults>>
    /\ UNCHANGED harness_vars

\* update_task_status(PROCESSING, 30.0, "Found n files to analyze"), then the
\* check of file_count
WFilesFetched ==
    /\ pc = "files_fetched"
    /\ WriteStatus(PROCESSING, 30, "Found files to analyze")
    /\ pc' = IF Len(files) = 0 THEN "no_files" ELSE "loop"
    /\ UNCHANGED <<row_vars, spc, worker_locals, cancel_vars>>
    /\ UNCHANGED harness_vars

\* update_task_status(COMPLETED, 100.0, "No files to analyze"); return
WNoFiles ==
    /\ pc = "no_files"
    /\ WriteStatus(COMPLETED, 100, "No files to analyze")
    /\ pc' = "returned"
    /\ UNCHANGED <<row_vars, spc, worker_locals, cancel_vars>>
    /\ UNCHANGED harness_vars

\* The entry the loop appends to files_for_analysis for a file it keeps.
FileForAnalysis(file_info) ==
    [filename |-> file_info.filename,
     language |-> detect_language_from_filename(file_info.filename),
     content |-> file_info.blob.content,
     additions |-> file_info.additions,
     deletions |-> file_info.deletions,
     changes |-> file_info.changes]

\* The loop's test of a file without the change-volume check.
Kept_any_size(file_info) == file_info.blob.kind = "text"

\* Whether one iteration of the collection loop keeps the file: not above the
\* change volume, content fetched, and text.
Kept(file_info) ==
    /\ ~(file_info.additions + file_info.deletions > 1000)
    /\ file_info.blob.kind = "text"

\* One iteration of `for i, file_info in enumerate(files)`.
WCollectFile ==
    /\ pc = "loop"
    /\ idx < Len(files)
    /\ files_for_analysis' =
            IF Kept(files[idx + 1])
            THEN Append(files_for_analysis, FileForAnalysis(files[idx + 1]))
            ELSE files_for_analysis
    /\ idx' = idx + 1
    /\ UNCHANGED <<task, row_vars, now, spc, pc, pr_state, files, analysis_results,
                   cancel_vars, ever_processing, db_faults>>
    /\ UNCHANGED harness_vars

\* The loop is exhausted.
WLoopDone ==
    /\ pc = "loop"
    /\ idx = Len(files)
    /\ pc' = "pre_analysis"
    /\ UNCHANGED <<task, row_vars, now, spc, worker_locals, cancel_vars,
                   ever_processing, db_faults>>
    /\ UNCHANGED harness_vars

\* update_task_status(PROCESSING, 80.0, "Running AI analysis...")
WPreAnalysis ==
    /\ pc = "pre_analysis"
    /\ WriteStatus(PROCESSING, 80, "Running AI analysis...")
    /\ pc' = "analysis"
    /\ UNCHANGED <<row_vars, spc, worker_locals, cancel_vars>>
    /\ UNCHANGED harness_vars

\* langgraph_analyzer.analyze_pr(pr_metadata, files_for_analysis) and the check
\* of its status, or run_async_in_celery raising before a result is assigned
WRunAnalysis ==
    /\ pc = "analysis"
    /\ \/ /\ analysis_results' = analyze_pr(files_for_analysis)
          /\ pc' = IF Get(analysis_results', "status", None) = "failed"
                   THEN "analysis_failed" ELSE "post_analysis"
       \/ /\ analysis_results' = analysis_results
          /\ pc' = "engine_failed"
    /\ UNCHANGED <<task, row_vars, now, spc, pr_state, files, idx, files_for_analysis,
                   cancel_vars, ever_processing, db_faults>>
    /\ UNCHANGED harness_vars

\* The failed-status branch going on to the save instead of returning.
WAnalysisFailed_goes_on ==
    /\ pc = "analysis_failed"
    /\ pc' = "post_analysis"
    /\ UNCHANGED <<task, now, ever_processing, db_faults>>
    /\ UNCHANGED <<row_vars, spc, worker_locals, cancel_vars>>
    /\ UNCHANGED harness_vars

\* update_task_status(FAILED, 0.0, "Analysis failed: ..."); return
WAnalysisFailed ==
    /\ pc = "analysis_failed"
    /\ WriteStatus(FAILED, 0, "Analysis failed")
    /\ pc' = "returned"
    /\ UNCHANGED <<row_vars, spc, worker_locals, cancel_vars>>
    /\ UNCHANGED harness_vars

\* except Exception around the engine call:
\* update_task_status(FAILED, 0.0, "Analysis engine failed: ..."); return
WEngineFailed ==
    /\ pc = "engine_failed"
    /\ WriteStatus(FAILED, 0, "Analysis engine failed")
    /\ pc' = "returned"
    /\ UNCHANGED <<row_vars, spc, worker_locals, cancel_vars>>
    /\ UNCHANGED harness_vars

\* update_task_status(PROCESSING, 90.0, "Saving results...")
WPostAnalysis ==
    /\ pc = "post_analysis"
    /\ WriteStatus(PROCESSING, 90, "Saving results...")
    /\ pc' = "save"
    /\ UNCHANGED <<row_vars, spc, worker_locals, cancel_vars>>
    /\ UNCHANGED harness_vars

\* summary = analysis_results.get("summary", {}); summary["total_files"] = ...:
\* the dict is the one analysis_results holds, when it holds one
WithCounts(ar, file_count, analyzed_count) ==
    IF "summary" \in DOMAIN ar
    THEN [ar EXCEPT !.summary =
            [k \in DOMAIN ar.summary \cup {"total_files", "files_analyzed"} |->
                IF k = "total_files" THEN file_count
                ELSE IF k = "files_analyzed" THEN analyzed_count
                ELSE ar.summary[k]]]
    ELSE ar

\* save_analysis_results with the summary built but never added to the session.
save_analysis_results_without_summary(database_results) ==
    [results |-> ResultRows(Get(database_results, "files", EmptyDict)),
     summaries |-> <<>>]

\* The rows save_analysis_results adds and commits in one transaction.
save_analysis_results(database_results) ==
    [results |-> ResultRows(Get(database_results, "files", EmptyDict)),
     summaries |-> <<SummaryRow(Get(database_results, "summary", EmptyDict))>>]

\* save_analysis_results(task_uuid, adapt_analysis_results_for_database(...)):
\* the rows are committed, or the session raises and nothing is written
WSave ==
    /\ pc = "save"
    /\ LET ar == WithCounts(analysis_results, Len(files), Len(files_for_analysis))
           saved == save_analysis_results(adapt_analysis_results_for_database(ar))
       IN /\ analysis_results' = ar
          /\ \/ /\ results' = results \cup saved.results
                /\ summaries' = summaries \o saved.summaries
                /\ pc' = "saved"
             \/ /\ UNCHANGED row_vars
                /\ pc' = "unexpected_error"
    /\ UNCHANGED <<task, now, spc, pr_state, files, idx, files_for_analysis,
                   cancel_vars, ever_processing, db_faults>>
    /\ UNCHANGED harness_vars

\* update_task_status(COMPLETED, 100.0, "Analysis completed"); return
WCompleted ==
    /\ pc = "saved"
    /\ WriteStatus(COMPLETED, 100, "Analysis completed")
    /\ pc' = "returned"
    /\ UNCHANGED <<row_vars, spc, worker_locals, cancel_vars>>
    /\ UNCHANGED harness_vars

\* The GitHub except branch returning its error dict without the status write.
WGithubError_without_update ==
    /\ pc = "github_error"
    /\ pc' = "returned"
    /\ UNCHANGED <<task, now, ever_processing, db_faults>>
    /\ UNCHANGED <<row_vars, spc, worker_locals, cancel_vars>>
    /\ UNCHANGED harness_vars

\* except (GitHubAPIException, ...): update_task_status(FAILED, 0.0, ...); return
WGithubError ==
    /\ pc = "github_error"
    /\ WriteStatus(FAILED, 0, "GitHub API error")
    /\ pc' = "returned"
    /\ UNCHANGED <<row_vars, spc, worker_locals, cancel_vars>>
    /\ UNCHANGED harness_vars

\* The last except branch re-raising without the status write.
WUnexpectedError_without_update ==
    /\ pc = "unexpected_error"
    /\ pc' = "raised"
    /\ UNCHANGED <<task, now, ever_processing, db_faults>>
    /\ UNCHANGED <<row_vars, spc, worker_locals, cancel_vars>>
    /\ UNCHANGED harness_vars

\* except Exception: update_task_status(FAILED, 0.0, ...); raise
WUnexpectedError ==
    /\ pc = "unexpected_error"
    /\ WriteStatus(FAILED, 0, "Unexpected error during analysis")
    /\ pc' = "raised"
    /\ UNCHANGED <<row_vars, spc, worker_locals, cancel_vars>>
    /\ UNCHANGED harness_vars

Worker ==
    \/ WStart \/ WFetchMetadata \/ WMetadataFetched \/ WBadState
    \/ WFetchFiles \/ WFilesFetched \/ WNoFiles
    \/ WCollectFile \/ WLoopDone
    \/ WPreAnalysis \/ WRunAnalysis \/ WAnalysisFailed \/ WEngineFailed
    \/ WPostAnalysis
    \/ WSave \/ WCompleted \/ WGithubError \/ WUnexpectedError

Next ==
    \/ SubmitCommit \/ SubmitEnqueue \/ SubmitSetCeleryId
    \/ CancelRequest \/ CancelCommit \/ WorkerRevoked
    \/ Worker

Spec == Init /\ [][Next]_vars

\* ------------------------------------- the file selector on its own
\* What a candidate may be: a .py file with 0..MaxChanges changes, or a file of
\* another extension with the most changes.
CandidateKinds ==
    {[ext |-> "py", changes |-> c] : c \in 0..MaxChanges}
        \cup {[ext |-> "txt", changes |-> MaxChanges]}

\* The entry the worker hands to the analyzer for the i-th changed file.
Candidate(i, kind) ==
    FileForAnalysis(PrFile(i, kind.ext, kind.changes, 0, Text(EmptyContent)))

\* The candidate lists: up to MaxCandidates files with distinct paths.
CandidateLists ==
    UNION {{[i \in 1..n |-> Candidate(i, ks[i])] : ks \in [1..n -> CandidateKinds]} :
            n \in 0..MaxCandidates}

SelectorInit ==
    /\ files_for_analysis \in CandidateLists
    /\ pc = "select"
    /\ analysis_results = EmptyDict
    /\ task = NoTask /\ results = {} /\ summaries = <<>> /\ now = 1
    /\ spc = "start" /\ pr_state = "none" /\ files = <<>> /\ idx = 0
    /\ cpc = "idle" /\ cancel_reason = None /\ cancels = 0 /\ resp = 0
    /\ revoked = FALSE /\ cancel_committed = FALSE /\ cancel_in_run = FALSE
    /\ ever_processing = FALSE /\ db_faults = 0
    /\ call_args = <<>> /\ call_result = <<>>
    /\ submissions = <<>> /\ db_tasks = <<>> /\ celery_queue = <<>>

selector_unchanged ==
    <<task, results, summaries, now, spc, pr_state, files, idx,
      files_for_analysis, cancel_vars, ever_processing, db_faults,
      harness_vars>>

\* The graph node run on the initial state analyze_pr builds from files_data.
SelectFiles ==
    /\ pc = "select"
    /\ analysis_results' =
            select_files_for_analysis(InitialState(files_for_analysis))
    /\ pc' = "selected"
    /\ UNCHANGED selector_unchanged

\* A second invocation on the same candidate list.
SelectAgain ==
    /\ pc = "selected"
    /\ analysis_results' =
            select_files_for_analysis(InitialState(files_for_analysis))
    /\ pc' = "selected_again"
    /\ UNCHANGED selector_unchanged

SelectorNext == SelectFiles \/ SelectAgain

SelectorSpec == SelectorInit /\ [][SelectorNext]_vars

\* ------------------------------------- the analysis tools on their own
\* What a line may hold of the patterns the text checks look for.
LineFeatures == {"print", "long", "todo"}

\* Constructs the syntax-tree checks look for, were the content to parse.
NodeKinds == {"bare_except", "augadd_in_for", "func_nodoc"}

SeqsUpTo(S, n) == UNION {[1..k -> S] : k \in 0..n}

\* File contents: any source text of 1..MaxLines lines; ast.parse succeeds,
\* raises SyntaxError (with or without a line number), or raises another
\* exception.
Contents ==
    {[parse |-> p.parse, errline |-> p.errline, nodes |-> ns, lines |-> ls] :
        p \in {[parse |-> "ok", errline |-> NULL], [parse |-> "raises", errline |-> NULL]}
                \cup {[parse |-> "syntax_error", errline |-> l] :
                        l \in {NULL} \cup (1..MaxLines)},
        ns \in SeqsUpTo([kind : NodeKinds, line : 1..MaxLines], MaxNodes),
        ls \in SeqsUpTo(SUBSET LineFeatures, MaxLines) \ {<<>>}}

ToolsInit ==
    /\ pc = "tools_call"
    /\ call_args \in Contents
    /\ call_result = <<>>
    /\ analysis_results = EmptyDict /\ files_for_analysis = <<>>
    /\ task = NoTask /\ results = {} /\ summaries = <<>> /\ now = 1
    /\ spc = "start" /\ pr_state = "none" /\ files = <<>> /\ idx = 0
    /\ cpc = "idle" /\ cancel_reason = None /\ cancels = 0 /\ resp = 0
    /\ revoked = FALSE /\ cancel_committed = FALSE /\ cancel_in_run = FALSE
    /\ ever_processing = FALSE /\ db_faults = 0
    /\ submissions = <<>> /\ db_tasks = <<>> /\ celery_queue = <<>>

\* analyze_python_code's four tool calls for one file: the issues returned
AnalyzeFile ==
    /\ pc = "tools_call"
    /\ ~RunTools(call_args).raised
    /\ call_result' = RunTools(call_args)
    /\ pc' = "tools_returned"
    /\ UNCHANGED <<call_args, task, results, summaries, now, spc, worker_locals,
                   cancel_vars, ever_processing, db_faults, submit_vars>>

\* ... or the exception a tool lets out
AnalyzeFileRaises ==
    /\ pc = "tools_call"
    /\ RunTools(call_args).raised
    /\ call_result' = RunTools(call_args)
    /\ pc' = "tools_raised"
    /\ UNCHANGED <<call_args, task, results, summaries, now, spc, worker_locals,
                   cancel_vars, ever_processing, db_faults, submit_vars>>

ToolsNext == AnalyzeFile \/ AnalyzeFileRaises

ToolsSpec == ToolsInit /\ [][ToolsNext]_vars

\* ------------------------------------------------------- LLMService
\* A JSON value of a reply: a string, a number, or an absent key.
Str(t) == [kind |-> "str", text |-> t]
Num(t) == [kind |-> "int", text |-> t]
Missing == [kind |-> "missing", text |-> ""]

\* str.lower() on the strings that occur.
Lower(t) == CASE t = "BUG" -> "bug" [] t = "HIGH" -> "high" [] OTHER -> t

\* int(...) on the numerals that occur.
IntOf(t) == CASE t = "7" -> 7 [] t = "3" -> 3 [] OTHER -> 0

\* A validator's outcome: the value it returns, or an exception that is
\* neither ValueError nor AssertionError and so leaves the validation.
Validated(v) == [raised |-> FALSE, value |-> v]
ValidatorRaised == [raised |-> TRUE, value |-> ""]

\* validate_issue_type without the except ValueError branch's default: the
\* lowered string is passed on as it is.
validate_issue_type_passthrough(v) ==
    IF v.kind # "str" THEN ValidatorRaised ELSE Validated(Lower(v.text))

\* IssueType(v.lower()), best_practice on ValueError; v.lower() raises
\* AttributeError when v is no string.
validate_issue_type(v) ==
    IF v.kind # "str" THEN ValidatorRaised
    ELSE Validated(IF Lower(v.text) \in IssueType
                   THEN Lower(v.text) ELSE "best_practice")

validate_issue_severity(v) ==
    IF v.kind # "str" THEN ValidatorRaised
    ELSE Validated(IF Lower(v.text) \in IssueSeverity
                   THEN Lower(v.text) ELSE "low")

\* line: int accepts a number or a numeric string.
LineAccepted(v) == v.kind = "int" \/ (v.kind = "str" /\ v.text \in {"7", "3"})

\* AIAnalysisIssue(**raw): "raises" when a validator lets an exception out,
\* "invalid" (ValidationError) when a required field is absent or of the wrong
\* type, else "ok" with the validated issue.
AIAnalysisIssue(raw) ==
    LET t == validate_issue_type(raw.type)
        sev == validate_issue_severity(raw.severity)
    IN IF \/ (raw.type.kind # "missing" /\ t.raised)
          \/ (raw.severity.kind # "missing" /\ sev.raised)
       THEN [outcome |-> "raises"]
       ELSE IF \/ raw.type.kind = "missing" \/ raw.severity.kind = "missing"
               \/ ~LineAccepted(raw.line)
               \/ raw.description.kind # "str" \/ raw.suggestion.kind # "str"
       THEN [outcome |-> "invalid"]
       ELSE [outcome |-> "ok",
             issue |-> [type |-> t.value, severity |-> sev.value,
                        line |-> IntOf(raw.line.text),
                        description |-> raw.description.text,
                        suggestion |-> raw.suggestion.text]]

\* AIAnalysisResult parsed from one reply, then [issue.model_dump() ...].
AIAnalysisResult(reply) ==
    IF reply.kind # "issues" THEN [outcome |-> "invalid", issues |-> <<>>]
    ELSE LET parsed == [k \in 1..Len(reply.issues) |-> AIAnalysisIssue(reply.issues[k])]
         IN IF \E k \in 1..Len(parsed) : parsed[k].outcome = "raises"
            THEN [outcome |-> "raises", issues |-> <<>>]
            ELSE IF \E k \in 1..Len(parsed) : parsed[k].outcome = "invalid"
            THEN [outcome |-> "invalid", issues |-> <<>>]
            ELSE [outcome |-> "ok",
                  issues |-> [k \in 1..Len(parsed) |-> parsed[k].issue]]

RawIssue(type, severity, line, description) ==
    [type |-> type, severity |-> severity, line |-> line,
     description |-> description, suggestion |-> Str("s")]

\* Issue records a reply may hold.
RawIssues ==
    {RawIssue(Str("bug"), Str("high"), Num("7"), Str("d")),
     RawIssue(Str("BUG"), Str("HIGH"), Num("7"), Str("d")),
     RawIssue(Str("nonsense"), Str("ultra"), Num("7"), Str("d")),
     RawIssue(Str("nonsense"), Str("high"), Num("3"), Str("d")),
     RawIssue(Str("style"), Str("ultra"), Num("3"), Str("d")),
     RawIssue(Str("bug"), Str("high"), Str("7"), Str("d")),
     RawIssue(Str("bug"), Str("high"), Str("x"), Str("d")),
     RawIssue(Str("bug"), Str("high"), Missing, Str("d")),
     RawIssue(Missing, Str("high"), Num("7"), Str("d")),
     RawIssue(Str("bug"), Missing, Num("7"), Str("d")),
     RawIssue(Str("nonsense"), Str("ultra"), Num("7"), Missing),
     RawIssue(Num("3"), Str("high"), Num("7"), Str("d")),
     RawIssue(Str("bug"), Num("3"), Num("7"), Str("d"))}

\* What one call of the chat completion API may give: an API error, a reply
\* that is no {"issues": [...]} object, or a list of issue records.
Replies ==
    {[kind |-> "api_error", issues |-> <<>>], [kind |-> "malformed", issues |-> <<>>]}
        \cup UNION {{[kind |-> "issues", issues |-> is] : is \in [1..n -> RawIssues]} :
                     n \in 0..MaxIssues}

\* max_retries=2 of the create call
max_retries == 2

NoReply == [kind |-> "none", issues |-> <<>>]

\* analyze_code's outcome: the list it returns, or an exception it lets out.
ReturnedList(issues) == [raised |-> FALSE, issues |-> issues]

LLMInit ==
    /\ pc = "llm_call"
    /\ call_args \in {[attempts |-> 0, limit |-> l, reply |-> NoReply] :
                        l \in {max_retries, max_retries + 1}}
    /\ call_result = <<>>
    /\ analysis_results = EmptyDict /\ files_for_analysis = <<>>
    /\ task = NoTask /\ results = {} /\ summaries = <<>> /\ now = 1
    /\ spc = "start" /\ pr_state = "none" /\ files = <<>> /\ idx = 0
    /\ cpc = "idle" /\ cancel_reason = None /\ cancels = 0 /\ resp = 0
    /\ revoked = FALSE /\ cancel_committed = FALSE /\ cancel_in_run = FALSE
    /\ ever_processing = FALSE /\ db_faults = 0
    /\ submissions = <<>> /\ db_tasks = <<>> /\ celery_queue = <<>>

llm_unchanged ==
    <<task, results, summaries, now, spc, worker_locals, cancel_vars,
      ever_processing, db_faults, submit_vars>>

\* client.chat.completions.create: one request to the model
LLMRequest ==
    /\ pc = "llm_call"
    /\ \E reply \in Replies :
        call_args' = [call_args EXCEPT !.attempts = @ + 1, !.reply = reply]
    /\ pc' = "llm_reply"
    /\ UNCHANGED <<call_result, llm_unchanged>>

\* the reply validates: return validated_issues
LLMReturn ==
    /\ pc = "llm_reply"
    /\ call_args.reply.kind # "api_error"
    /\ AIAnalysisResult(call_args.reply).outcome = "ok"
    /\ call_result' = ReturnedList(AIAnalysisResult(call_args.reply).issues)
    /\ pc' = "llm_returned"
    /\ UNCHANGED <<call_args, llm_unchanged>>

\* the call failed or its reply does not validate, and the library asks the
\* model again
LLMRetry ==
    /\ pc = "llm_reply"
    /\ AIAnalysisResult(call_args.reply).outcome # "ok"
    /\ call_args.attempts < call_args.limit
    /\ pc' = "llm_call"
    /\ UNCHANGED <<call_args, call_result, llm_unchanged>>

\* except Exception: return [] -- an API error, a validator's exception, or a
\* reply that does not validate with no attempt left
LLMGiveUp ==
    /\ pc = "llm_reply"
    /\ \/ call_args.reply.kind = "api_error"
       \/ AIAnalysisResult(call_args.reply).outcome = "raises"
       \/ /\ AIAnalysisResult(call_args.reply).outcome = "invalid"
          /\ call_args.attempts >= call_args.limit
    /\ call_result' = ReturnedList(<<>>)
    /\ pc' = "llm_returned"
    /\ UNCHANGED <<call_args, llm_unchanged>>

LLMNext == LLMRequest \/ LLMReturn \/ LLMRetry \/ LLMGiveUp

LLMSpec == LLMInit /\ [][LLMNext]_vars

\* ------------------------------------------------- get_analysis_results
\* The answer of a request the handler refuses: HTTPException(status_code).
HttpError(code) == [code |-> code]

\* _convert_issues_to_details: IssueType(...), IssueSeverity(...) and the
\* IssueDetail line > 0 constraint raise on a value outside their range.
IssueConvertible(issue) ==
    /\ Get(issue, "type", "style") \in IssueType
    /\ Get(issue, "severity", "low") \in IssueSeverity
    /\ Get(issue, "line", 1) > 0

_convert_file_results(task_results) ==
    {[name |-> r.file_name, path |-> r.file_path, language |-> r.language,
      issues |-> r.issues] : r \in task_results}

\* <<>> stands for the None returned when the task has no summary row.
_convert_summary_to_response(task_summary) ==
    IF task_summary = <<>> THEN <<>> ELSE <<task_summary[1]>>

\* The ge / le constraints of AnalysisSummaryResponse.
SummaryResponseValid(r) ==
    /\ \A k \in {"total_files", "total_issues", "critical_issues", "high_issues",
                 "medium_issues", "low_issues", "style_issues", "bug_issues",
                 "performance_issues", "security_issues",
                 "maintainability_issues", "best_practice_issues"} : r[k] >= 0
    /\ r.code_quality_score \in 0..100
    /\ r.maintainability_score \in 0..100

\* get_analysis_results with the status test dropped.
get_analysis_results_unchecked(t, task_results, task_summary) ==
    IF t = NoTask THEN HttpError(404)
    ELSE [code |-> 200, status |-> t.status, progress |-> t.progress,
          files |-> _convert_file_results(task_results),
          summary |-> _convert_summary_to_response(task_summary),
          started_at |-> t.started_at, completed_at |-> t.completed_at,
          analysis_duration |-> NULL, error_message |-> t.error_message]

\* The answer to GET /results/{task_id} for the rows one query loads: 404 for
\* no task, 409 unless the status is completed or failed, 500 when building the
\* response raises, else the response.
get_analysis_results(t, task_results, task_summary) ==
    IF t = NoTask THEN HttpError(404)
    ELSE IF t.status \notin {COMPLETED, FAILED} THEN HttpError(409)
    ELSE LET analysis_duration ==
                 IF t.started_at # NULL /\ t.completed_at # NULL
                 THEN t.completed_at - t.started_at ELSE NULL
             summary_response == _convert_summary_to_response(task_summary)
         IN IF \/ \E r \in task_results :
                    \E i \in 1..Len(r.issues) : ~IssueConvertible(r.issues[i])
               \/ summary_response # <<>>
                    /\ ~SummaryResponseValid(summary_response[1])
               \/ t.progress \notin 0..100
               \/ analysis_duration < 0
            THEN HttpError(500)
            ELSE [code |-> 200, status |-> t.status, progress |-> t.progress,
                  files |-> _convert_file_results(task_results),
                  summary |-> summary_response,
                  started_at |-> t.started_at, completed_at |-> t.completed_at,
                  analysis_duration |-> analysis_duration,
                  error_message |-> t.error_message]

\* ------------------------- PythonCodeAnalysisWorkflow, node by node
PrDataKinds == {"dict", "mapping", "none"}

\* The files_data lists of analyze_pr: the Python files among what the worker
\* collected (what LangGraphAnalyzer hands over), the empty list included.
WorkflowFiles ==
    {SelectSeq([i \in 1..Len(kept) |-> FileForAnalysis(kept[i])],
               LAMBDA f : EndsWithPy(f.filename)) :
        kept \in {SelectSeq(fl, Kept) : fl \in FileLists}}

WorkflowInit ==
    /\ pc = "analyze_pr"
    /\ call_args \in [pr_data : PrDataKinds, files_data : WorkflowFiles]
    /\ call_result = <<>>
    /\ analysis_results = EmptyDict /\ files_for_analysis = <<>>
    /\ task = NoTask /\ results = {} /\ summaries = <<>> /\ now = 1
    /\ spc = "start" /\ pr_state = "none" /\ files = <<>> /\ idx = 0
    /\ cpc = "idle" /\ cancel_reason = None /\ cancels = 0 /\ resp = 0
    /\ revoked = FALSE /\ cancel_committed = FALSE /\ cancel_in_run = FALSE
    /\ ever_processing = FALSE /\ db_faults = 0
    /\ submissions = <<>> /\ db_tasks = <<>> /\ celery_queue = <<>>

workflow_unchanged ==
    <<task, results, summaries, now, spc, pr_state, files, idx,
      files_for_analysis, cancel_vars, ever_processing, db_faults, submit_vars>>

\* analyze_pr up to graph.ainvoke: pr_data.get('title', ...) for the log line
\* raises AttributeError on None, before the try; else the initial state.
WorkflowStart ==
    /\ pc = "analyze_pr"
    /\ IF call_args.pr_data = "none"
       THEN pc' = "raised" /\ call_result' = call_result
       ELSE /\ pc' = "pr_analysis"
            /\ call_result' = [InitialState(call_args.files_data)
                                 EXCEPT !.pr_data = call_args.pr_data]
    /\ UNCHANGED <<call_args, analysis_results, workflow_unchanged>>

\* entry point pr_analysis and its edge to file_selection
PrAnalysisNode ==
    /\ pc = "pr_analysis"
    /\ call_result' = analyze_pr_context(call_result)
    /\ pc' = "file_selection"
    /\ UNCHANGED <<call_args, analysis_results, workflow_unchanged>>

\* file_selection and its edge to content_fetching
FileSelectionNode ==
    /\ pc = "file_selection"
    /\ call_result' = select_files_for_analysis(call_result)
    /\ pc' = "content_fetching"
    /\ UNCHANGED <<call_args, analysis_results, workflow_unchanged>>

\* content_fetching and its edge to python_analysis
ContentFetchingNode ==
    /\ pc = "content_fetching"
    /\ call_result' = fetch_file_contents(call_result)
    /\ pc' = "python_analysis"
    /\ UNCHANGED <<call_args, analysis_results, workflow_unchanged>>

\* python_analysis and its edge to synthesis; an exception of a tool leaves
\* the graph and analyze_pr returns _create_error_response
PythonAnalysisNode ==
    /\ pc = "python_analysis"
    /\ LET out == analyze_python_code(call_result)
       IN IF out.raised
          THEN /\ analysis_results' = _create_error_response
               /\ call_result' = call_result
               /\ pc' = "returned"
          ELSE /\ analysis_results' = analysis_results
               /\ call_result' = out.state
               /\ pc' = "synthesis"
    /\ UNCHANGED <<call_args, workflow_unchanged>>

\* synthesis and its edge to END
SynthesisNode ==
    /\ pc = "synthesis"
    /\ call_result' = synthesize_results(call_result)
    /\ pc' = "END"
    /\ UNCHANGED <<call_args, analysis_results, workflow_unchanged>>

\* return self._format_results(result_state)
WorkflowReturn ==
    /\ pc = "END"
    /\ analysis_results' = _format_results(call_result)
    /\ pc' = "returned"
    /\ UNCHANGED <<call_args, call_result, workflow_unchanged>>

WorkflowNext ==
    \/ WorkflowStart \/ PrAnalysisNode \/ FileSelectionNode \/ ContentFetchingNode
    \/ PythonAnalysisNode \/ SynthesisNode \/ WorkflowReturn

WorkflowSpec == WorkflowInit /\ [][WorkflowNext]_vars

\* ------------------------------------------------- IntelligentWorkflow
\* Supersteps graph.ainvoke runs before it raises GraphRecursionError: run()
\* passes no config, so the limit is the library's default.
recursion_limit == 25

\* files_data entries: a path and a content ("" for none).
IwFile(i, ext, content) ==
    [filename |-> [dir |-> "src", base |-> i, ext |-> ext], content |-> content]

\* The lists of n Python files with content, one of them at most replaced by
\* a Python file without content, a file of another kind, or a Python file
\* in which the model finds an issue.
FilesData ==
    UNION {{[i \in 1..n |->
                IF i = q THEN IwFile(i, v.ext, v.content)
                ELSE IwFile(i, "py", "clean")] :
             q \in 0..n,
             v \in {[ext |-> "py", content |-> ""], [ext |-> "txt", content |-> "clean"],
                    [ext |-> "py", content |-> "flawed"]}} :
           n \in 0..MaxTriaged}

\* analyze_code_with_ai(llm_service, file_path, content) as the loop node
\* uses it: the list of issues the model reports for the content.
analyze_code_with_ai(content) ==
    IF content = "flawed"
    THEN <<[type |-> "bug", severity |-> "high", line |-> 3]>>
    ELSE <<>>

\* initial_state of run(); steps, visited and reports are bookkeeping: the
\* supersteps run so far, the paths popped by the loop node in order, and the
\* number of runs of synthesize_report.
IwInitialState ==
    [critical_files |-> <<>>, current_file_path |-> None, analysis_results |-> <<>>,
     final_summary |-> EmptyDict, steps |-> 0, visited |-> <<>>, reports |-> 0]

triage_pr_node(state, files_data) ==
    LET py == SelectSeq(files_data, LAMBDA f : EndsWithPy(f.filename))
    IN [state EXCEPT !.critical_files = [i \in 1..Len(py) |-> py[i].filename]]

file_analysis_loop_node(state, files_data) ==
    IF state.critical_files = <<>> THEN state
    ELSE LET file_path == Head(state.critical_files)
             found == SelectSeq(files_data, LAMBDA f : f.filename = file_path)
         IN IF found = <<>> \/ found[1].content = ""
            THEN [state EXCEPT !.critical_files = Tail(@),
                               !.current_file_path = file_path,
                               !.visited = Append(@, file_path)]
            ELSE [state EXCEPT
                    !.critical_files = Tail(@),
                    !.current_file_path = file_path,
                    !.visited = Append(@, file_path),
                    !.analysis_results =
                        Append(@, [file_path |-> file_path,
                                   issues |-> analyze_code_with_ai(found[1].content)])]

should_continue_analysis(state) ==
    IF state.critical_files # <<>> THEN "continue" ELSE "end"

synthesize_report_node(state) ==
    LET all == AllIssues(state.analysis_results)
    IN [state EXCEPT
            !.final_summary =
                [total_files_analyzed |-> Len(state.analysis_results),
                 total_issues |-> Len(all),
                 severity_breakdown |->
                    [v \in IssueSeverity |-> Count(all, LAMBDA i : i.severity = v)],
                 issue_type_breakdown |->
                    [t \in {all[i].type : i \in 1..Len(all)} |->
                        Count(all, LAMBDA i : i.type = t)]],
            !.reports = @ + 1]

IntelligentInit ==
    /\ pc = "triage_pr"
    /\ call_args \in FilesData
    /\ call_result = IwInitialState
    /\ analysis_results = EmptyDict /\ files_for_analysis = <<>>
    /\ task = NoTask /\ results = {} /\ summaries = <<>> /\ now = 1
    /\ spc = "start" /\ pr_state = "none" /\ files = <<>> /\ idx = 0
    /\ cpc = "idle" /\ cancel_reason = None /\ cancels = 0 /\ resp = 0
    /\ revoked = FALSE /\ cancel_committed = FALSE /\ cancel_in_run = FALSE
    /\ ever_processing = FALSE /\ db_faults = 0
    /\ submissions = <<>> /\ db_tasks = <<>> /\ celery_queue = <<>>

\* One superstep of the graph counted.
Stepped(state) == [state EXCEPT !.steps = @ + 1]

\* entry point: triage_pr, then the edge to file_analysis_loop
TriagePr ==
    /\ pc = "triage_pr"
    /\ call_result.steps < recursion_limit
    /\ call_result' = Stepped(triage_pr_node(call_result, call_args))
    /\ pc' = "file_analysis_loop"
    /\ UNCHANGED <<call_args, llm_unchanged>>

\* file_analysis_loop, then the conditional edge on should_continue_analysis
FileAnalysisLoop ==
    /\ pc = "file_analysis_loop"
    /\ call_result.steps < recursion_limit
    /\ call_result' = Stepped(file_analysis_loop_node(call_result, call_args))
    /\ pc' = IF should_continue_analysis(call_result') = "continue"
             THEN "file_analysis_loop" ELSE "synthesize_report"
    /\ UNCHANGED <<call_args, llm_unchanged>>

\* synthesize_report, then the edge to END
SynthesizeReport ==
    /\ pc = "synthesize_report"
    /\ call_result.steps < recursion_limit
    /\ call_result' = Stepped(synthesize_report_node(call_result))
    /\ pc' = "END"
    /\ UNCHANGED <<call_args, llm_unchanged>>

\* A node is due and the supersteps are used up: ainvoke raises
\* GraphRecursionError, which run() lets out.
GraphRecursionError ==
    /\ pc \in {"triage_pr", "file_analysis_loop", "synthesize_report"}
    /\ call_result.steps >= recursion_limit
    /\ pc' = "graph_raised"
    /\ UNCHANGED <<call_args, call_result, llm_unchanged>>

IntelligentNext ==
    TriagePr \/ FileAnalysisLoop \/ SynthesizeReport \/ GraphRecursionError

IntelligentSpec == IntelligentInit /\ [][IntelligentNext]_vars

\* ------------------------------ submit_pr_analysis, request by request
\* A repo_url as the validator reads it: leading whitespace, scheme, host, the
\* path segments between single slashes ("name": one or more characters of
\* [a-zA-Z0-9_.-], "other": with a character outside that class), the
\* characters after the last segment, and whether the whole string is longer
\* than 500 characters.
Url(lead, scheme, host, segs, tail, too_long) ==
    [lead |-> lead, scheme |-> scheme, host |-> host, segs |-> segs,
     tail |-> tail, too_long |-> too_long]

Whitespace == {"space", "newline"}

RECURSIVE RStripChars(_, _)
\* s.rstrip(chars) on a sequence of characters
RStripChars(s, chars) ==
    IF s # <<>> /\ s[Len(s)] \in chars
    THEN RStripChars(SubSeq(s, 1, Len(s) - 1), chars)
    ELSE s

\* v.strip()
Strip(v) == [v EXCEPT !.lead = <<>>, !.tail = RStripChars(@, Whitespace)]

\* v.rstrip("/")
RStripSlash(v) == [v EXCEPT !.tail = RStripChars(@, {"slash"})]

\* re.match(r"^https://github\.com/[a-zA-Z0-9_.-]+/[a-zA-Z0-9_.-]+/?$", v):
\* $ matches at the end of the string and also before a newline that ends it.
MatchesGithubPattern(v) ==
    /\ v.lead = <<>>
    /\ v.scheme = "https" /\ v.host = "github.com"
    /\ Len(v.segs) = 2 /\ \A k \in 1..2 : v.segs[k] = "name"
    /\ v.tail \in {<<>>, <<"slash">>, <<"newline">>, <<"slash", "newline">>}

\* The field validator of repo_url: the normalized URL, or ValueError.
validate_github_repo_url(v) ==
    LET normalized_url == RStripSlash(Strip(v))
    IN IF MatchesGithubPattern(normalized_url)
       THEN [raised |-> FALSE, value |-> normalized_url]
       ELSE [raised |-> TRUE, value |-> v]

\* le=999999 of pr_number
pr_number_le == 999999

\* AnalysisRequest(**body): repo_url within max_length=500 and accepted by its
\* validator, pr_number gt=0 and le=999999.  github_token is optional and
\* unconstrained and is left out.
AnalysisRequest(body) ==
    LET url == validate_github_repo_url(body.repo_url)
    IN IF \/ body.repo_url.too_long
          \/ url.raised
          \/ ~(body.pr_number > 0 /\ body.pr_number <= pr_number_le)
       THEN [valid |-> FALSE, request |-> body]
       ELSE [valid |-> TRUE,
             request |-> [repo_url |-> url.value, pr_number |-> body.pr_number]]

GoodUrl == Url(<<>>, "https", "github.com", <<"name", "name">>, <<>>, FALSE)

\* The repo_url strings clients send.
SampleUrls ==
    {GoodUrl,
     [GoodUrl EXCEPT !.lead = <<"space">>, !.tail = <<"slash", "slash", "newline">>],
     [GoodUrl EXCEPT !.tail = <<"newline", "slash">>],
     [GoodUrl EXCEPT !.tail = <<"space", "slash">>],
     [GoodUrl EXCEPT !.scheme = "http"],
     [GoodUrl EXCEPT !.host = "gitlab.com"],
     [GoodUrl EXCEPT !.segs = <<"name">>],
     [GoodUrl EXCEPT !.segs = <<"name", "name", "name">>],
     [GoodUrl EXCEPT !.segs = <<"name", "other">>],
     [GoodUrl EXCEPT !.too_long = TRUE]}

\* The request bodies clients send: every sample URL with a PR number in
\* range, and the plain URL with the first number outside each limit.
Bodies ==
    {[repo_url |-> u, pr_number |-> 42] : u \in SampleUrls}
        \cup {[repo_url |-> GoodUrl, pr_number |-> n] :
                n \in {0, pr_number_le + 1}}

NoRequest == [repo_url |-> GoodUrl, pr_number |-> 0]

\* AnalysisTask(repo_url=..., pr_number=..., status=PENDING, progress=0.0)
AnalysisTask(request) ==
    [repo_url |-> request.repo_url, pr_number |-> request.pr_number,
     status |-> PENDING, progress |-> 0, started_at |-> NULL,
     completed_at |-> NULL, error_message |-> None, celery_task_id |-> NULL]

\* id = Field(default_factory=uuid4, primary_key=True): an id no row has yet
uuid4(tbl) == Len(tbl) + 1

\* A request arrives at POST /analyze-pr.
SubmitReceive ==
    /\ Len(submissions) < MaxSubmits
    /\ \E body \in Bodies :
        submissions' = Append(submissions,
            [raw |-> body, request |-> NoRequest, pos |-> "received",
             task_id |-> NULL, code |-> 0])
    /\ UNCHANGED <<db_tasks, celery_queue>>
    /\ UNCHANGED <<task, results, summaries, now, spc, pc, worker_locals,
                   cancel_vars, ever_processing, db_faults, call_args, call_result>>

\* The body is validated before the handler is called: 422, or the request
\* object the handler receives.
SubmitValidate ==
    \E i \in 1..Len(submissions) :
        /\ submissions[i].pos = "received"
        /\ LET parsed == AnalysisRequest(submissions[i].raw)
           IN submissions' =
                IF parsed.valid
                THEN [submissions EXCEPT ![i].request = parsed.request,
                                         ![i].pos = "validated"]
                ELSE [submissions EXCEPT ![i].pos = "done", ![i].code = 422]
        /\ UNCHANGED <<db_tasks, celery_queue>>
        /\ UNCHANGED <<task, results, summaries, now, spc, pc, worker_locals,
                       cancel_vars, ever_processing, db_faults, call_args, call_result>>

\* db_session.add(task); commit; refresh -- or the commit raises: rollback, 500
SubmitAddTask ==
    \E i \in 1..Len(submissions) :
        /\ submissions[i].pos = "validated"
        /\ \/ /\ db_tasks' = Append(db_tasks, AnalysisTask(submissions[i].request))
              /\ submissions' = [submissions EXCEPT ![i].task_id = uuid4(db_tasks),
                                                    ![i].pos = "committed"]
           \/ /\ db_tasks' = db_tasks
              /\ submissions' = [submissions EXCEPT ![i].pos = "done", ![i].code = 500]
        /\ UNCHANGED celery_queue
        /\ UNCHANGED <<task, results, summaries, now, spc, pc, worker_locals,
                       cancel_vars, ever_processing, db_faults, call_args, call_result>>

\* The message analyze_pr_task.delay(str(task.id), repo_url, pr_number, token)
\* puts on the broker.
Message(sub) ==
    [task_id |-> sub.task_id, repo_url |-> sub.request.repo_url,
     pr_number |-> sub.request.pr_number, state |-> "queued"]

\* SubmitDelay sending the message twice.
SubmitDelay_twice ==
    \E i \in 1..Len(submissions) :
        /\ submissions[i].pos = "committed"
        /\ \/ /\ celery_queue' = celery_queue \o <<Message(submissions[i]),
                                                   Message(submissions[i])>>
              /\ submissions' = [submissions EXCEPT ![i].pos = "enqueued"]
           \/ /\ celery_queue' = celery_queue
              /\ submissions' = [submissions EXCEPT ![i].pos = "done", ![i].code = 500]
        /\ UNCHANGED db_tasks
        /\ UNCHANGED <<task, results, summaries, now, spc, pc, worker_locals,
                       cancel_vars, ever_processing, db_faults, call_args, call_result>>

\* analyze_pr_task.delay(...) -- or the broker call raises: rollback of a
\* session with nothing left to undo, 500
SubmitDelay ==
    \E i \in 1..Len(submissions) :
        /\ submissions[i].pos = "committed"
        /\ \/ /\ celery_queue' = Append(celery_queue, Message(submissions[i]))
              /\ submissions' = [submissions EXCEPT ![i].pos = "enqueued"]
           \/ /\ celery_queue' = celery_queue
              /\ submissions' = [submissions EXCEPT ![i].pos = "done", ![i].code = 500]
        /\ UNCHANGED db_tasks
        /\ UNCHANGED <<task, results, summaries, now, spc, pc, worker_locals,
                       cancel_vars, ever_processing, db_faults, call_args, call_result>>

\* task.celery_task_id = celery_task.id; commit; 202 -- or the commit raises:
\* rollback of the id, 500.  Only the changed attribute is written.
SubmitStoreCeleryId ==
    \E i \in 1..Len(submissions) :
        /\ submissions[i].pos = "enqueued"
        /\ \/ /\ db_tasks' =
                    [db_tasks EXCEPT ![submissions[i].task_id].celery_task_id =
                        CHOOSE k \in 1..Len(celery_queue) :
                            celery_queue[k].task_id = submissions[i].task_id]
              /\ submissions' = [submissions EXCEPT ![i].pos = "done", ![i].code = 202]
           \/ /\ db_tasks' = db_tasks
              /\ submissions' = [submissions EXCEPT ![i].pos = "done", ![i].code = 500]
        /\ UNCHANGED celery_queue
        /\ UNCHANGED <<task, results, summaries, now, spc, pc, worker_locals,
                       cancel_vars, ever_processing, db_faults, call_args, call_result>>

\* A worker takes a message from the broker and the run starts:
\* update_task_status(PROCESSING, 0.0, "Starting analysis...")
RunStarts ==
    \E k \in 1..Len(celery_queue) :
        /\ celery_queue[k].state = "queued"
        /\ celery_queue' = [celery_queue EXCEPT ![k].state = "started"]
        /\ db_tasks' =
            [db_tasks EXCEPT ![celery_queue[k].task_id] =
                update_task_status(@, PROCESSING, 0, "Starting analysis...", now)]
        /\ UNCHANGED submissions
        /\ UNCHANGED <<task, results, summaries, now, spc, pc, worker_locals,
                       cancel_vars, ever_processing, db_faults, call_args, call_result>>

SubmitNext ==
    \/ SubmitReceive \/ SubmitValidate \/ SubmitAddTask \/ SubmitDelay
    \/ SubmitStoreCeleryId \/ RunStarts

SubmitSpec == Init /\ [][SubmitNext]_vars

\* ------------------------------------------------------------- the claims
\* Positions from which the next step of the run is a call of update_task_status.
UpdatingPcs ==
    {"queued", "meta_fetched", "bad_state", "files_fetched", "no_files",
     "pre_analysis", "analysis_failed", "engine_failed", "post_analysis", "saved",
     "github_error", "unexpected_error"}

HasTask == task.status # "none"

\* C1: while no status write fails, the persisted status only moves along
\* PENDING -> PROCESSING -> {COMPLETED, FAILED, CANCELLED} (a cancel may take a
\* PENDING task straight to CANCELLED), and a terminal status is never changed
\* by a later write.
C1_StatusSequence ==
    [][(HasTask /\ db_faults' = 0 /\ task'.status # task.status) =>
            /\ ~IsTerminal(task.status)
            /\ task.status = PENDING => task'.status \in {PROCESSING, CANCELLED}
            /\ task.status = PROCESSING => IsTerminal(task'.status)]_vars

\* The python files the engine selects from what the worker collected.
SelectedForAnalysis ==
    select_files_for_analysis(
        InitialState(SelectSeq(files_for_analysis,
                               LAMBDA f : EndsWithPy(f.filename)))).selected_files

\* The selected files on which an analyzer raises.
RaisingFiles ==
    {i \in 1..Len(files_for_analysis) :
        /\ EndsWithPy(files_for_analysis[i].filename)
        /\ RunTools(files_for_analysis[i].content).raised}

\* C2: a run that was not cancelled, lost no status write and had an analyzer
\* raise on exactly one selected file still ends COMPLETED with one FileAnalysis
\* record per selected file.
C2_PerFileIsolation ==
    (/\ pc \in {"returned", "raised"}
     /\ ~cancel_committed /\ cpc = "idle" /\ db_faults = 0
     /\ Cardinality(RaisingFiles) = 1)
    => /\ task.status = COMPLETED
       /\ Len(Get(analysis_results, "file_analyses", <<>>)) = Len(SelectedForAnalysis)

\* C3: once a cancel has been committed while the run was in progress, no
\* AnalysisResult or AnalysisSummary row exists for the task, and when the run
\* and the cancel handler are over the status is CANCELLED.
C3_CancelDiscards ==
    (cancel_in_run /\ db_faults = 0)
    => /\ results = {} /\ summaries = <<>>
       /\ (pc \in Finished /\ cpc = "idle") => task.status = CANCELLED

\* C4: as long as the task has not been cancelled, no write lowers the
\* persisted progress.
C4_ProgressMonotonic ==
    [][(HasTask /\ ~cancel_committed') => task'.progress >= task.progress]_vars

\* C5: in every persisted AnalysisSummary the four severity counts sum to
\* total_issues, the six type counts sum to total_issues, and both scores lie
\* in [0, 100].
C5_SummaryCounts ==
    \A i \in 1..Len(summaries) :
        LET r == summaries[i]
        IN /\ r.critical_issues + r.high_issues + r.medium_issues + r.low_issues
                = r.total_issues
           /\ r.style_issues + r.bug_issues + r.performance_issues
                + r.security_issues + r.maintainability_issues
                + r.best_practice_issues = r.total_issues
           /\ r.code_quality_score \in 0..100
           /\ r.maintainability_score \in 0..100

\* C6 as stated: every task whose status is COMPLETED or FAILED has exactly one
\* AnalysisSummary row.
C6_OneSummaryPerFinishedTask ==
    (HasTask /\ task.status \in {COMPLETED, FAILED}) => Len(summaries) = 1

\* C6 amended: a task never has more than one AnalysisSummary row; a FAILED
\* task has none; a COMPLETED task has exactly one if the pull request had
\* changed files and none if it had no changed files.
C6_SummaryOnlyAfterSave ==
    /\ Len(summaries) <= 1
    /\ (HasTask /\ task.status = FAILED) => Len(summaries) = 0
    /\ (HasTask /\ task.status = COMPLETED) =>
            Len(summaries) = (IF Len(files) > 0 THEN 1 ELSE 0)

\* C6 witness: the run went through save_analysis_results and wrote COMPLETED.
C6_Witness ==
    /\ HasTask /\ task.status = COMPLETED /\ pc = "returned"
    /\ Len(files) > 0 /\ Len(summaries) = 1

\* C7: a call of update_task_status on a task whose status is terminal leaves
\* status, progress, completed_at and error_message as they were.
C7_TerminalNoop ==
    [][(/\ HasTask /\ IsTerminal(task.status)
        /\ pc \in UpdatingPcs /\ pc' # pc /\ pc' # "terminated")
       => /\ task'.status = task.status
          /\ task'.progress = task.progress
          /\ task'.completed_at = task.completed_at
          /\ task'.error_message = task.error_message]_vars

\* C8: once a cancel has been committed the run does no further work: no
\* fetch, no loop iteration, no analysis, no save, no status update.
C8_CancelObserved ==
    [][cancel_committed => UNCHANGED <<worker_locals, row_vars, now>>]_vars

\* C9: after every write a task in a terminal status has completed_at set, and
\* a completed_at that is set is never changed.
C9_CompletedAtOnce ==
    [][/\ IsTerminal(task'.status) => task'.completed_at # NULL
       /\ (HasTask /\ task.completed_at # NULL)
            => task'.completed_at = task.completed_at]_vars

\* C10: started_at is null exactly while PROCESSING has never been persisted,
\* it is set by a write that takes the task from PENDING into PROCESSING, and
\* once set no later write changes it.
C10_StartedAtOnce ==
    [][(task'.status # "none") =>
        /\ (task'.started_at # NULL) <=> ever_processing'
        /\ (HasTask /\ task.started_at # NULL)
            => task'.started_at = task.started_at
        /\ (task'.started_at # NULL /\ (~HasTask \/ task.started_at = NULL))
            => (task'.status = PROCESSING /\ task.status = PENDING)]_vars

C12_CancelOnlyActive ==
    [][/\ (cpc = "idle" /\ cancels' # cancels) =>
            /\ ~HasTask
                => (resp' = 404 /\ UNCHANGED <<task, revoked, cpc, row_vars>>)
            /\ (HasTask /\ IsTerminal(task.status))
                => (resp' = 409 /\ UNCHANGED <<task, revoked, cpc, row_vars>>)
            /\ (HasTask /\ task.status \in {PENDING, PROCESSING})
                => (cpc' = "commit" /\ resp' \notin {404, 409})
       /\ (cpc' = "commit" /\ cpc # "commit")
            => (HasTask /\ task.status \in {PENDING, PROCESSING})
       /\ (resp' = 200 /\ resp # 200)
            => (cpc = "commit" /\ task'.status = CANCELLED)]_vars

\* C12 witness: a cancel request on a COMPLETED task was answered 409.
C12_Witness ==
    /\ HasTask /\ task.status = COMPLETED /\ pc = "returned"
    /\ resp = 409 /\ cpc = "idle" /\ ~cancel_committed

\* C13: in every state, a request for the results of a PENDING, PROCESSING or
\* CANCELLED task is answered 409 with no result data, and an answer carrying
\* results is given only for a COMPLETED or FAILED task.
C13_ResultsOnlyWhenFinished ==
    LET r == get_analysis_results(task, results, summaries)
    IN /\ (HasTask /\ task.status \in {PENDING, PROCESSING, CANCELLED})
            => r = HttpError(409)
       /\ r.code = 200 => (HasTask /\ task.status \in {COMPLETED, FAILED})
       /\ DOMAIN r # {"code"} => r.code = 200

\* C13 witness: a CANCELLED task for which a summary row exists, and whose
\* results are refused with 409.
C13_Witness ==
    /\ HasTask /\ task.status = CANCELLED /\ summaries # <<>>
    /\ get_analysis_results(task, results, summaries).code = 409

\* Position in the candidate list of the candidate with path fn.
PosOf(fn) == CHOOSE i \in 1..Len(files_for_analysis) :
                files_for_analysis[i].filename = fn

\* Candidate i ranks before candidate j: more changes, or as many and earlier.
RanksBefore(i, j) ==
    \/ files_for_analysis[i].changes > files_for_analysis[j].changes
    \/ files_for_analysis[i].changes = files_for_analysis[j].changes /\ i < j

PyCandidates ==
    {i \in 1..Len(files_for_analysis) : files_for_analysis[i].filename.ext = "py"}

\* C14: the selector's output has at most 5 entries, each the path of a .py
\* candidate, none twice, ordered by changes descending with equal changes in
\* input order; it is the top of that ranking (no unselected .py candidate
\* ranks before a selected one, and fewer than 5 are selected only when there
\* are no more); a second invocation on the same input gives the same output.
C14_SelectionDeterministic ==
    [][pc' \in {"selected", "selected_again"} =>
        LET out == analysis_results'.selected_files
            chosen == {PosOf(out[k]) : k \in 1..Len(out)}
        IN /\ Len(out) <= 5
           /\ \A k \in 1..Len(out) :
                \E i \in PyCandidates : files_for_analysis[i].filename = out[k]
           /\ \A k, l \in 1..Len(out) :
                k < l => RanksBefore(PosOf(out[k]), PosOf(out[l]))
           /\ \A i \in PyCandidates \ chosen :
                \A j \in chosen : RanksBefore(j, i)
           /\ Len(out) < 5 => chosen = PyCandidates
           /\ pc = "selected" => analysis_results' = analysis_results]_vars

\* C14 witness: six .py candidates, five selected after a second invocation,
\* two of the selected with equal changes.
C14_Witness ==
    /\ pc = "selected_again"
    /\ Cardinality(PyCandidates) = 6
    /\ Len(analysis_results.selected_files) = 5
    /\ \E i, j \in PyCandidates :
        /\ i < j
        /\ files_for_analysis[i].changes = files_for_analysis[j].changes
        /\ files_for_analysis[i].changes > 0
        /\ \E k \in 1..4 :
            /\ analysis_results.selected_files[k] = files_for_analysis[i].filename
            /\ analysis_results.selected_files[k + 1] = files_for_analysis[j].filename

SelectedPaths ==
    {analysis_results.selected_files[k] :
        k \in 1..Len(analysis_results.selected_files)}

\* C15 as stated: no candidate with zero changes is in the selector's output.
C15_ZeroChangeExcluded ==
    pc \in {"selected", "selected_again"} =>
        \A i \in 1..Len(files_for_analysis) :
            files_for_analysis[i].changes = 0
                => files_for_analysis[i].filename \notin SelectedPaths

\* C15 amended: the selector has no filter on the change count; a .py
\* candidate with zero changes is in the output exactly when fewer than 5 .py
\* candidates rank before it.
C15_ZeroChangeRankedLast ==
    pc \in {"selected", "selected_again"} =>
        \A i \in PyCandidates :
            files_for_analysis[i].changes = 0 =>
                (files_for_analysis[i].filename \in SelectedPaths
                    <=> Cardinality({j \in PyCandidates : RanksBefore(j, i)}) < 5)

\* C15 witness: a zero-change .py candidate was selected while another
\* zero-change .py candidate of the same list was cut off by the cap.
C15_Witness ==
    /\ pc = "selected"
    /\ \E i, j \in PyCandidates :
        /\ files_for_analysis[i].changes = 0
        /\ files_for_analysis[j].changes = 0
        /\ files_for_analysis[i].filename \in SelectedPaths
        /\ files_for_analysis[j].filename \notin SelectedPaths

RequiredFields == {"type", "severity", "line", "description", "suggestion"}

\* C16: analyze_code returns a list and raises nothing, whatever the model
\* replied; every issue it returns has a type of IssueType and a severity of
\* IssueSeverity; a type string outside IssueType has become best_practice
\* and a severity string outside IssueSeverity has become low, a string inside
\* is kept (lowered); no record of a reply that misses a required field is
\* returned.
C16_ValidationNeverThrows ==
    pc = "llm_returned" =>
        LET out == call_result.issues
            raw == call_args.reply.issues
        IN /\ ~call_result.raised
           /\ \A k \in 1..Len(out) :
                out[k].type \in IssueType /\ out[k].severity \in IssueSeverity
           /\ out # <<>> =>
                /\ Len(out) = Len(raw)
                /\ \A k \in 1..Len(out) :
                    /\ out[k].type =
                         (IF Lower(raw[k].type.text) \in IssueType
                          THEN Lower(raw[k].type.text) ELSE "best_practice")
                    /\ out[k].severity =
                         (IF Lower(raw[k].severity.text) \in IssueSeverity
                          THEN Lower(raw[k].severity.text) ELSE "low")
           /\ (\E k \in 1..Len(raw) : \E f \in RequiredFields :
                    raw[k][f].kind = "missing") => out = <<>>

\* C16 witness: a record with type "nonsense" and severity "ultra" came back
\* as best_practice / low.
C16_Witness ==
    /\ pc = "llm_returned"
    /\ \E k \in 1..Len(call_result.issues) :
        /\ call_args.reply.issues[k].type = Str("nonsense")
        /\ call_args.reply.issues[k].severity = Str("ultra")
        /\ call_result.issues[k].type = "best_practice"
        /\ call_result.issues[k].severity = "low"

TreeRules ==
    {"bare_except", "none_comparison", "string_concat_loop", "missing_docstring",
     "missing_class_docstring"}

\* The issues the line-based text checks owe for a content.
TextFindings(c) ==
    {[rule |-> "print_statement", line |-> i] :
        i \in {k \in 1..Len(c.lines) : "print" \in c.lines[k]}}
    \cup {[rule |-> "line_length", line |-> i] :
        i \in {k \in 1..Len(c.lines) : "long" \in c.lines[k]}}
    \cup {[rule |-> "todo_comment", line |-> i] :
        i \in {k \in 1..Len(c.lines) : "todo" \in c.lines[k]}}

\* What C17 asks of the issues found for content c.
ParseFailureReported(c, out) ==
    /\ ~out.raised
    /\ Cardinality({k \in 1..Len(out.issues) :
            out.issues[k].type = "bug" /\ out.issues[k].severity = "critical"}) = 1
    /\ \E k \in 1..Len(out.issues) :
        /\ out.issues[k].type = "bug" /\ out.issues[k].severity = "critical"
        /\ out.issues[k].line = (IF c.errline = NULL THEN 1 ELSE c.errline)
    /\ \A k \in 1..Len(out.issues) : out.issues[k].rule \notin TreeRules
    /\ \A f \in TextFindings(c) :
        \E k \in 1..Len(out.issues) :
            out.issues[k].rule = f.rule /\ out.issues[k].line = f.line

ToSkip(file_info) ==
    \/ file_info.additions + file_info.deletions > 1000
    \/ file_info.blob.kind \in {"binary", "error"}

EngineFailureMessages == {"Analysis failed", "Analysis engine failed"}

C21_CheckpointBeforeNextStage ==
    [][(pc \in UpdatingPcs /\ db_faults' # db_faults) => pc' \notin InProgress]_vars

\* A body that is no proper submission: its repo_url, whitespace around it and
\* slashes after it aside, is not https://github.com/<owner>/<repo>, or its
\* pr_number is outside 1..999999.
Malformed(body) ==
    LET u == RStripSlash(Strip(body.repo_url))
    IN \/ ~(/\ u.scheme = "https" /\ u.host = "github.com"
            /\ u.segs = <<"name", "name">> /\ u.tail = <<>>)
       \/ body.pr_number \notin 1..pr_number_le

\* Submission i left nothing behind: it holds no task id, every task row
\* belongs to a submission that holds its id, and every queued run carries the
\* id of such a row.
NothingCreated(i) ==
    /\ submissions[i].task_id = NULL
    /\ \A t \in 1..Len(db_tasks) :
        \E j \in 1..Len(submissions) : j # i /\ submissions[j].task_id = t
    /\ \A k \in 1..Len(celery_queue) :
        \E j \in 1..Len(submissions) :
            j # i /\ submissions[j].task_id = celery_queue[k].task_id

\* C22: a malformed submission is answered 422 by the validation, before the
\* handler runs: it never gets a task row and no run is queued for it.
C22_MalformedRejected ==
    \A i \in 1..Len(submissions) :
        Malformed(submissions[i].raw) =>
            /\ submissions[i].pos \in {"received", "done"}
            /\ submissions[i].pos = "done" => submissions[i].code = 422
            /\ NothingCreated(i)

\* The submissions answered 202.
Accepted == {i \in 1..Len(submissions) : submissions[i].code = 202}

\* The queued runs that carry task id t.
RunsFor(t) == {k \in 1..Len(celery_queue) : celery_queue[k].task_id = t}

\* C23: the insert of submit adds exactly one row, PENDING with progress 0 and
\* the request's repo_url and pr_number, under an id no other row has; every
\* accepted submission holds the id of one row of its own, and exactly one
\* queued run carries that id with the request's repo_url and pr_number; so n
\* accepted submissions, identical or not, have n distinct rows and n runs.
C23_OneTaskOneRun ==
    [][/\ Len(db_tasks') # Len(db_tasks) =>
            /\ Len(db_tasks') = Len(db_tasks) + 1
            /\ db_tasks'[Len(db_tasks')].status = PENDING
            /\ db_tasks'[Len(db_tasks')].progress = 0
            /\ \E i \in 1..Len(submissions) :
                /\ submissions[i].task_id = NULL
                /\ submissions'[i].task_id = Len(db_tasks')
                /\ db_tasks'[Len(db_tasks')].repo_url = submissions[i].request.repo_url
                /\ db_tasks'[Len(db_tasks')].pr_number = submissions[i].request.pr_number
                /\ \A j \in 1..Len(submissions) :
                    j # i => submissions'[j].task_id = submissions[j].task_id
       /\ \A i \in 1..Len(submissions') :
            submissions'[i].code = 202 =>
                /\ submissions'[i].task_id \in 1..Len(db_tasks')
                /\ \E k \in 1..Len(celery_queue') :
                    /\ celery_queue'[k].task_id = submissions'[i].task_id
                    /\ celery_queue'[k].repo_url = submissions'[i].request.repo_url
                    /\ celery_queue'[k].pr_number = submissions'[i].request.pr_number
                    /\ \A l \in 1..Len(celery_queue') :
                        celery_queue'[l].task_id = submissions'[i].task_id => l = k
       /\ \A i, j \in 1..Len(submissions') :
            (i # j /\ submissions'[i].task_id # NULL)
                => submissions'[i].task_id # submissions'[j].task_id]_vars

\* C23 witness: two accepted submissions with the same repo_url and pr_number
\* have two rows and two queued runs.
C23_Witness ==
    /\ Accepted = {1, 2}
    /\ submissions[1].request = submissions[2].request
    /\ submissions[1].task_id # submissions[2].task_id
    /\ Cardinality(RunsFor(submissions[1].task_id)) = 1
    /\ Cardinality(RunsFor(submissions[2].task_id)) = 1
    /\ Len(db_tasks) = 2 /\ Len(celery_queue) = 2

\* C30: every row submit has committed has a queued run: a submission that
\* was answered with an error after its row was committed and before a run
\* was queued has left no PENDING row.
C30_NoOrphanPendingTask ==
    \A i \in 1..Len(submissions) :
        (/\ submissions[i].pos = "done" /\ submissions[i].code = 500
         /\ submissions[i].task_id # NULL
         /\ RunsFor(submissions[i].task_id) = {})
        => db_tasks[submissions[i].task_id].status # PENDING

\* The FileAnalysis records the analysis stage produced in this run.
FileAnalyses == Get(analysis_results, "file_analyses", <<>>)

\* C24: the AnalysisSummary row of a completed task has total_files equal to
\* the number of FileAnalysis records of the run and total_issues equal to
\* the sum of the numbers of issues of those records.
C24_SummaryTotals ==
    (HasTask /\ task.status = COMPLETED /\ pc = "returned" /\ summaries # <<>>)
    => /\ summaries[Len(summaries)].total_files = Len(FileAnalyses)
       /\ summaries[Len(summaries)].total_issues = Len(AllIssues(FileAnalyses))

\* The issue dicts _format_results hands on for one FileAnalysis record.
Persistable(fa) == [path |-> fa.file_path, issues |-> fa.issues]

\* C25: for a task that reached COMPLETED, the AnalysisResult rows are the
\* FileAnalysis records of the run: one row per record, with its path and
\* its list of issues, and get_analysis_results returns those files.
C25_RowsAreFileAnalyses ==
    (HasTask /\ task.status = COMPLETED /\ pc = "returned" /\ db_faults = 0)
    => /\ {[path |-> r.file_path, issues |-> r.issues] : r \in results}
            = {Persistable(FileAnalyses[i]) : i \in 1..Len(FileAnalyses)}
       /\ Cardinality(results) = Len(FileAnalyses)
       /\ LET answer == get_analysis_results(task, results, summaries)
          IN answer.code = 200 =>
                {[path |-> f.path, issues |-> f.issues] : f \in answer.files}
                    = {Persistable(FileAnalyses[i]) : i \in 1..Len(FileAnalyses)}

\* The paths triage_pr selects from files_data, in order.
Triaged ==
    LET py == SelectSeq(call_args, LAMBDA f : EndsWithPy(f.filename))
    IN [i \in 1..Len(py) |-> py[i].filename]

\* C26: a step of the loop node on a non-empty critical_files removes exactly
\* its head and visits it, also when the file has no content; the loop node
\* runs again exactly while critical_files is not empty; synthesize_report
\* runs only on an empty critical_files; the run ends at END and nowhere
\* else, and there every triaged file has been visited once, in triage
\* order, and synthesize_report has run once.
C26_LoopVisitsEachFileOnce ==
    [][/\ (pc = "file_analysis_loop" /\ pc' # "graph_raised"
            /\ call_result.critical_files # <<>>)
            => /\ call_result'.critical_files = Tail(call_result.critical_files)
               /\ call_result'.visited =
                    Append(call_result.visited, Head(call_result.critical_files))
               /\ pc' = (IF call_result'.critical_files # <<>>
                         THEN "file_analysis_loop" ELSE "synthesize_report")
       /\ call_result'.reports # call_result.reports
            => (call_result.critical_files = <<>> /\ call_result.reports = 0)
       /\ pc' \notin {"triage_pr", "file_analysis_loop", "synthesize_report"}
            => /\ pc' = "END"
               /\ call_result'.visited = Triaged
               /\ call_result'.critical_files = <<>>
               /\ call_result'.reports = 1]_vars

\* The context check of analyze_pr_context failed in this run.
ContextInvalid ==
    /\ pc \notin {"analyze_pr", "pr_analysis", "raised"}
    /\ call_args.pr_data # "dict"

\* C27: once analyze_pr_context has marked the state as stage "error", no
\* later node changes the state, and the result the workflow returns has
\* status "failed".
C27_InvalidContextFatal ==
    [][ContextInvalid =>
        /\ call_result' = call_result
        /\ pc' = "returned" => Get(analysis_results', "status", None) = "failed"]_vars

\* The run of analyze_pr_task is over by a return or a raise, every status
\* write of it was committed, and no cancel was committed for the task.
RunEndedUncancelled ==
    /\ pc \in {"returned", "raised"}
    /\ db_faults = 0
    /\ ~cancel_committed

\* C28: a run of analyze_pr_task that has returned or raised, with every
\* status write committed and the task not cancelled, leaves the task
\* COMPLETED or FAILED, never PENDING or PROCESSING.
C28_RunEndsTerminal ==
    RunEndedUncancelled => task.status \in {COMPLETED, FAILED}

\* A run that raised (the save failed) and left the task FAILED.
C28_Witness ==
    RunEndedUncancelled /\ pc = "raised" /\ task.status = FAILED

\* C29: in every reachable state, cancel requests interleaved with the
\* worker's updates included, a FAILED task has an error_message that is
\* neither null nor empty.
C29_FailedHasMessage ==
    (task # NoTask /\ task.status = FAILED)
        => task.error_message \notin {None, ""}

\* The worker wrote FAILED over a committed cancel.
C29_Witness ==
    /\ task # NoTask /\ task.status = FAILED
    /\ cancel_committed
    /\ task.error_message # None

====
